---- MODULE Spec2Model ----
(***************************************************************************)
(* State-machine model of the interview-log application (App component,    *)
(* key-gated variant, and the organizeInterviewNotes service wrapper).     *)
(*                                                                         *)
(* Texts are sequences of one-character strings.  The persisted value is   *)
(* a tagged record: kind "absent" (no value under STORAGE_KEY), "text" (a  *)
(* string that is not JSON; val holds its characters, <<>> is the empty    *)
(* string), "json" (the JSON text of a sequence of records; val is that    *)
(* sequence) or "json_other" (JSON of a value that is not a sequence).     *)
(*                                                                         *)
(* An invocation of handleOrganize that is suspended at its await is an    *)
(* element of calls: it holds the inputText, template and history of the   *)
(* render whose closure is running, because the code after the await       *)
(* reads those closure values and not the current state.                   *)
(*                                                                         *)
(* Environment assumptions: localStorage.setItem does not throw, and a     *)
(* page reload discards every suspended invocation.                        *)
(***************************************************************************)
EXTENDS Integers, Sequences, FiniteSets

VARIABLES
    isKeySelected,      \* "null" | "true" | "false"
    inputText,
    organizedContent,
    template,
    isProcessing,
    history,
    selectedLogId,      \* Null or an id
    storage,            \* localStorage value under STORAGE_KEY
    calls,              \* suspended handleOrganize invocations
    clock,              \* the last value Date.now() returned
    alertMsg,           \* the text of the last alert(), NoAlert if none
    loaded,             \* the load-history effect has run
    showCopyToast,      \* the copy confirmation is shown
    clipboard,          \* the text last passed to navigator.clipboard.writeText
    timers,             \* pending setTimeout callbacks of copyToClipboard
    historyIsArray,     \* FALSE when history holds a parsed value that is no sequence
    ev,                 \* ghost: the last event
    nCreated,           \* ghost: the number of records created so far
    lastRemoved,        \* ghost: id of the last confirmed removal since the last append
    removedAny          \* ghost: some removal has been confirmed

vars == <<isKeySelected, inputText, organizedContent, template, isProcessing,
          history, selectedLogId, storage, calls, clock, alertMsg, loaded,
          historyIsArray, showCopyToast, clipboard, timers, ev, nCreated, lastRemoved,
          removedAny>>

\* Everything the application itself holds or persists (no ghosts, no clock).
appState == <<isKeySelected, inputText, organizedContent, template, isProcessing,
              history, selectedLogId, storage, calls, alertMsg, loaded,
              historyIsArray, showCopyToast, clipboard, timers>>

----------------------------------------------------------------------------
\* Bounds of the model

MaxConv == 2            \* successful conversions explored by Spec
MaxConvEvict == 22      \* successful conversions explored by SpecEvict
InitClock == 2          \* Date.now() when the model starts
TicksPerDay == 2        \* clock ticks per calendar day
TitleSlack == 1         \* SpecTitle: longest run of letters is TitleLen + TitleSlack
MaxTimers == 2          \* SpecCopy: pending copy-toast timers

\* Program constants

MaxHistory == 20
TitleLen == 25

----------------------------------------------------------------------------
\* Values

PROFESSIONAL == "PROFESSIONAL"
HR == "HR"
COUNSELING == "COUNSELING"
CASUAL == "CASUAL"
LogTemplate == {PROFESSIONAL, HR, COUNSELING, CASUAL}

Null == <<"null">>
NoAlert == <<>>
GenericServiceMessage == <<"S">>     \* the wrapper's fixed Error message
FallbackAlert == <<"E">>             \* alert text for a thrown non-Error
ApiKeyAlert == <<"K">>               \* alert text of the API_KEY_ERROR branch
ApiKeyError == <<"A">>               \* the message "API_KEY_ERROR"
EmptyResponseText == <<"F">>         \* the wrapper's text for an empty response
Ellipsis == <<".", ".", ".">>

\* Inputs the model draws from
InputTexts == {<<>>, <<" ">>, <<"a">>}
InputTemplates == {PROFESSIONAL, HR}
ResponseTexts == {<<>>, <<"r">>}

----------------------------------------------------------------------------
\* Pure helpers

Min(a, b) == IF a < b THEN a ELSE b

\* Array.prototype.slice(0, n) / String.prototype.slice(0, n)
Slice0(s, n) == SubSeq(s, 1, Min(Len(s), n))

IsSpace(c) == c = " "

RECURSIVE TrimStart(_)
TrimStart(s) == IF s # <<>> /\ IsSpace(Head(s)) THEN TrimStart(Tail(s)) ELSE s

RECURSIVE TrimEnd(_)
TrimEnd(s) ==
    IF s # <<>> /\ IsSpace(s[Len(s)]) THEN TrimEnd(SubSeq(s, 1, Len(s) - 1)) ELSE s

\* String.prototype.trim
Trim(s) == TrimEnd(TrimStart(s))

Digit(d) == <<"0", "1", "2", "3", "4", "5", "6", "7", "8", "9">>[d + 1]

\* Number.prototype.toString (decimal) of a natural number
RECURSIVE NumberToString(_)
NumberToString(n) ==
    IF n < 10 THEN <<Digit(n)>> ELSE NumberToString(n \div 10) \o <<Digit(n % 10)>>

\* Date.prototype.toLocaleDateString: the calendar day of a clock value
ToLocaleDateString(now) == <<"d">> \o NumberToString(now \div TicksPerDay)

Ids(h) == {h[i].id : i \in 1..Len(h)}

RECURSIVE Filter(_, _)
\* history.filter(h => h.id !== id)
Filter(h, id) ==
    IF h = <<>> THEN <<>>
    ELSE IF Head(h).id # id THEN <<Head(h)>> \o Filter(Tail(h), id)
    ELSE Filter(Tail(h), id)

RemoveAt(s, i) == SubSeq(s, 1, i - 1) \o SubSeq(s, i + 1, Len(s))

\* JSON.stringify of a sequence of records / the value getItem returns
Stringify(h) == [kind |-> "json", val |-> h]

\* `if (saved)`: getItem returned a non-empty string
Truthy(saved) == saved.kind # "absent" /\ ~(saved.kind = "text" /\ saved.val = <<>>)

\* JSON.parse: throws on text that is not JSON
ParseThrows(saved) == saved.kind = "text"

----------------------------------------------------------------------------
\* The service wrapper (geminiService.ts)

\* What generateContent can do: return a response whose text may be empty,
\* or throw some error.
Outcomes ==
    [ok : {TRUE}, val : ResponseTexts] \cup [ok : {FALSE}, val : {<<"n">>, <<"k">>}]

\* Mutant: the response text and the thrown error are passed through
OrganizeInterviewNotesRaw(outcome) ==
    [ok |-> outcome.ok, isError |-> ~outcome.ok, val |-> outcome.val]

\* organizeInterviewNotes: the value it resolves with, or the Error it throws
OrganizeInterviewNotes(outcome) ==
    IF outcome.ok
    THEN [ok |-> TRUE, isError |-> FALSE,
          val |-> IF outcome.val # <<>> THEN outcome.val ELSE EmptyResponseText]
    ELSE [ok |-> FALSE, isError |-> TRUE, val |-> GenericServiceMessage]

----------------------------------------------------------------------------
\* Pieces of the App component

\* Mutant: the emptiness test without trim()
BlankNoTrim(t) == t = <<>>

\* !inputText.trim()
Blank(t) == Trim(t) = <<>>

\* Mutant: the button's guard without isProcessing
OrganizeDisabledNoBusy == Trim(inputText) = <<>>

\* disabled={!inputText.trim() || isProcessing}
OrganizeDisabled == Blank(inputText) \/ isProcessing

\* The Button component runs onClick only when it is not disabled.
ButtonFires(disabled) == ~disabled

\* The main content is rendered: key chosen, and history.map does not throw.
MainRendered == loaded /\ isKeySelected = "true" /\ historyIsArray

\* Mutant: trim before the slice
TitleTrimFirst(text) ==
    Slice0(Trim(text), TitleLen) \o (IF Len(text) > TitleLen THEN Ellipsis ELSE <<>>)

\* inputText.slice(0, 25).trim() + (inputText.length > 25 ? '...' : '')
Title(text) ==
    Trim(Slice0(text, TitleLen)) \o (IF Len(text) > TitleLen THEN Ellipsis ELSE <<>>)

\* Mutant: originalText and organizedText exchanged
NewLogSwapped(text, tpl, result, now) ==
    [id |-> NumberToString(now),
     title |-> Trim(Slice0(text, TitleLen)) \o (IF Len(text) > TitleLen THEN Ellipsis ELSE <<>>),
     date |-> ToLocaleDateString(now),
     originalText |-> result,
     organizedText |-> text,
     template |-> tpl]

\* The newLog object literal of handleOrganize
NewLog(text, tpl, result, now) ==
    [id |-> NumberToString(now),
     title |-> Title(text),
     date |-> ToLocaleDateString(now),
     originalText |-> text,
     organizedText |-> result,
     template |-> tpl]

\* Mutant: no slice
UpdatedNoSlice(newLog, hist) == <<newLog>> \o hist

\* Mutant: slice(-20), which keeps the oldest records
UpdatedKeepOldest(newLog, hist) ==
    SubSeq(<<newLog>> \o hist, Len(hist) + 2 - Min(Len(hist) + 1, MaxHistory), Len(hist) + 1)

\* saveToHistory: [newLog, ...history].slice(0, 20), with the history of its closure
Updated(newLog, hist) == Slice0(<<newLog>> \o hist, MaxHistory)

\* The closure a suspended handleOrganize runs in
Closure == [text |-> inputText, template |-> template, hist |-> history]

\* The history saveToHistory prepends to, for the invocation with closure c
SavedHistory(c) == c.hist

\* Mutant: the input as it is when the call resolves
RecordTextCurrent(c) == inputText

\* originalText: inputText, as the suspended invocation reads it
RecordText(c) == c.text

\* template: template, as the suspended invocation reads it
RecordTemplate(c) == c.template

\* Mutant: the fallback text whatever was thrown
CatchAlertFallback(e) == FallbackAlert

\* catch: the text handed to alert()
CatchAlert(e) ==
    IF e.val = ApiKeyError THEN ApiKeyAlert
    ELSE IF e.isError THEN e.val ELSE FallbackAlert

\* catch: isKeySelected after the handler
CatchKeySelected(e) == IF e.val = ApiKeyError THEN "false" ELSE isKeySelected

\* Mutant: no finally block
FinallyProcessingMissing == isProcessing

\* finally: setIsProcessing(false)
FinallyProcessing == FALSE

\* Mutant: the first record is dropped, whatever its id
DeleteUpdatedDropFirst(h, id) == Tail(h)

\* deleteHistoryItem: history.filter(h => h.id !== id)
DeleteUpdated(h, id) == Filter(h, id)

\* Mutant: the unfiltered history is written
DeletePersistedStale(updated) == Stringify(history)

\* deleteHistoryItem: the value written to localStorage
DeletePersisted(updated) == Stringify(updated)

\* Mutant: the history before the append is written
SavePersistedStale(updated) == Stringify(history)

\* saveToHistory: the value written to localStorage
SavePersisted(updated) == Stringify(updated)

----------------------------------------------------------------------------
\* Ghost: the last event, the text it carried (arg: the value the service call
\* resolved with, the message it threw, the id removed or selected), the record
\* it created or was given (log), and what preceded it (aux: the error
\* generateContent threw, the text it returned, the id selected before a
\* removal).
Ev(op) == [op |-> op, arg |-> <<>>, log |-> <<>>, aux |-> <<>>]

----------------------------------------------------------------------------
\* Initial state: the component's useState values; localStorage holds nothing,
\* something unreadable, or a value the application did not write.

InitStorage ==
    {[kind |-> "absent", val |-> <<>>],
     [kind |-> "text", val |-> <<>>],
     [kind |-> "text", val |-> <<"{">>],
     [kind |-> "json_other", val |-> <<>>]}

SessionInit ==
    /\ isKeySelected = "null"
    /\ inputText = <<>>
    /\ organizedContent = <<>>
    /\ template = PROFESSIONAL
    /\ isProcessing = FALSE
    /\ history = <<>>
    /\ historyIsArray = TRUE
    /\ selectedLogId = Null
    /\ calls = <<>>
    /\ alertMsg = NoAlert
    /\ loaded = FALSE
    /\ showCopyToast = FALSE
    /\ timers = 0

Init ==
    /\ SessionInit
    /\ storage \in InitStorage
    /\ clock = InitClock
    /\ clipboard = <<>>
    /\ ev = Ev("init")
    /\ nCreated = 0
    /\ lastRemoved = Null
    /\ removedAny = FALSE

----------------------------------------------------------------------------
\* Mount effects and the key gate

\* useEffect: load history
LoadHistory ==
    /\ ~loaded
    /\ loaded' = TRUE
    /\ IF Truthy(storage) /\ ~ParseThrows(storage)
       THEN /\ history' = (IF storage.kind = "json" THEN storage.val ELSE <<>>)
            /\ historyIsArray' = (storage.kind = "json")
       ELSE UNCHANGED <<history, historyIsArray>>
    /\ ev' = Ev("load")
    /\ UNCHANGED <<showCopyToast, clipboard, timers, isKeySelected, inputText, organizedContent, template, isProcessing,
                   selectedLogId, storage, calls, clock, alertMsg, nCreated, lastRemoved, removedAny>>

\* useEffect: checkKey; hasSelectedApiKey resolved with hasKey, or threw (FALSE)
CheckKey(hasKey) ==
    /\ loaded
    /\ isKeySelected = "null"
    /\ isKeySelected' = (IF hasKey THEN "true" ELSE "false")
    /\ ev' = Ev("checkKey")
    /\ UNCHANGED <<showCopyToast, clipboard, timers, inputText, organizedContent, template, isProcessing, history,
                   selectedLogId, storage, calls, clock, alertMsg, loaded,
                   historyIsArray, nCreated, lastRemoved, removedAny>>

\* handleOpenKeySelector, from the setup gate
HandleOpenKeySelector ==
    /\ loaded
    /\ isKeySelected = "false"
    /\ isKeySelected' = "true"
    /\ ev' = Ev("openKeySelector")
    /\ UNCHANGED <<showCopyToast, clipboard, timers, inputText, organizedContent, template, isProcessing, history,
                   selectedLogId, storage, calls, clock, alertMsg, loaded,
                   historyIsArray, nCreated, lastRemoved, removedAny>>

\* The page is loaded again: a new component instance over the same storage.
Reload ==
    /\ loaded
    /\ isKeySelected' = "null"
    /\ inputText' = <<>>
    /\ organizedContent' = <<>>
    /\ template' = PROFESSIONAL
    /\ isProcessing' = FALSE
    /\ history' = <<>>
    /\ historyIsArray' = TRUE
    /\ selectedLogId' = Null
    /\ calls' = <<>>
    /\ alertMsg' = NoAlert
    /\ loaded' = FALSE
    /\ ev' = Ev("reload")
    /\ showCopyToast' = FALSE
    /\ timers' = 0
    /\ UNCHANGED <<storage, clock, clipboard, nCreated, lastRemoved, removedAny>>

----------------------------------------------------------------------------
\* User events on the main content

\* textarea onChange
SetInputText(t) ==
    /\ MainRendered
    /\ inputText' = t
    /\ ev' = Ev("setInputText")
    /\ UNCHANGED <<showCopyToast, clipboard, timers, isKeySelected, organizedContent, template, isProcessing, history,
                   selectedLogId, storage, calls, clock, alertMsg, loaded,
                   historyIsArray, nCreated, lastRemoved, removedAny>>

\* select onChange
SetTemplate(tpl) ==
    /\ MainRendered
    /\ template' = tpl
    /\ ev' = Ev("setTemplate")
    /\ UNCHANGED <<showCopyToast, clipboard, timers, isKeySelected, inputText, organizedContent, isProcessing, history,
                   selectedLogId, storage, calls, clock, alertMsg, loaded,
                   historyIsArray, nCreated, lastRemoved, removedAny>>

\* Mutant: the prompt's answer is ignored
ConfirmedAlways(answer) == TRUE

\* if (confirm(...)): the body runs when the user accepts the prompt
Confirmed(answer) == answer

\* Mutant: the template is left as it is
NewLogEffectKeepTemplate ==
    /\ inputText' = <<>>
    /\ organizedContent' = <<>>
    /\ selectedLogId' = Null
    /\ template' = template

\* handleNewLog: the four setters
NewLogEffect ==
    /\ inputText' = <<>>
    /\ organizedContent' = <<>>
    /\ selectedLogId' = Null
    /\ template' = PROFESSIONAL

\* The sidebar's plus button: onClick={handleNewLog}
HandleNewLog ==
    /\ MainRendered
    /\ NewLogEffect
    /\ ev' = Ev("newLog")
    /\ UNCHANGED <<showCopyToast, clipboard, timers, isKeySelected, isProcessing, history, storage, calls, clock,
                   alertMsg, loaded, historyIsArray, nCreated, lastRemoved, removedAny>>

\* confirmClear; answer is what confirm() returns when it is shown
ConfirmClear(answer) ==
    /\ MainRendered
    /\ IF ~Blank(inputText) \/ organizedContent # <<>>
       THEN /\ IF Confirmed(answer)
               THEN NewLogEffect
               ELSE UNCHANGED <<inputText, organizedContent, selectedLogId, template>>
            /\ ev' = (IF answer THEN Ev("clear_confirmed") ELSE Ev("clear_declined"))
       ELSE NewLogEffect /\ ev' = Ev("clear_direct")
    /\ UNCHANGED <<showCopyToast, clipboard, timers, isKeySelected, isProcessing, history, storage, calls, clock,
                   alertMsg, loaded, historyIsArray, nCreated, lastRemoved, removedAny>>

\* Mutant: setTemplate(log.template) is missing
SelectHistoryItemKeepTemplate(k) ==
    /\ MainRendered
    /\ k \in 1..Len(history)
    /\ inputText' = history[k].originalText
    /\ organizedContent' = history[k].organizedText
    /\ selectedLogId' = history[k].id
    /\ ev' = [op |-> "select", arg |-> history[k].id, log |-> <<history[k]>>,
              aux |-> <<>>]
    /\ UNCHANGED <<showCopyToast, clipboard, timers, isKeySelected, template, isProcessing, history, storage, calls, clock,
                   alertMsg, loaded, historyIsArray, nCreated, lastRemoved, removedAny>>

\* selectHistoryItem(history[k])
SelectHistoryItem(k) ==
    /\ MainRendered
    /\ k \in 1..Len(history)
    /\ inputText' = history[k].originalText
    /\ organizedContent' = history[k].organizedText
    /\ template' = history[k].template
    /\ selectedLogId' = history[k].id
    /\ ev' = [op |-> "select", arg |-> history[k].id, log |-> <<history[k]>>,
              aux |-> <<>>]
    /\ UNCHANGED <<showCopyToast, clipboard, timers, isKeySelected, isProcessing, history, storage, calls, clock,
                   alertMsg, loaded, historyIsArray, nCreated, lastRemoved, removedAny>>

\* deleteHistoryItem(e, history[k].id); answer is what confirm() returns
DeleteHistoryItem(k, answer) ==
    /\ MainRendered
    /\ k \in 1..Len(history)
    /\ LET id == history[k].id
           updated == DeleteUpdated(history, id)
       IN /\ IF Confirmed(answer)
             THEN /\ history' = updated
                  /\ storage' = DeletePersisted(updated)
                  /\ IF selectedLogId = id
                     THEN NewLogEffect
                     ELSE UNCHANGED <<inputText, organizedContent, selectedLogId,
                                      template>>
                  /\ lastRemoved' = id
                  /\ removedAny' = TRUE
             ELSE UNCHANGED <<history, storage, inputText, organizedContent,
                              selectedLogId, template, lastRemoved, removedAny>>
          /\ ev' = (IF answer
                    THEN [op |-> "delete_confirmed", arg |-> id, log |-> <<>>,
                          aux |-> selectedLogId]
                    ELSE Ev("delete_declined"))
    /\ UNCHANGED <<showCopyToast, clipboard, timers, isKeySelected, isProcessing, calls, clock, alertMsg, loaded,
                   historyIsArray, nCreated>>

----------------------------------------------------------------------------
\* Conversion

\* A click on the organize button.  A disabled button runs nothing; otherwise
\* handleOrganize runs up to its await.
ClickOrganize ==
    /\ MainRendered
    /\ IF ~ButtonFires(OrganizeDisabled)
       THEN /\ ev' = Ev("organize_disabled")
            /\ UNCHANGED <<isProcessing, calls>>
       ELSE IF Blank(inputText)
            THEN /\ ev' = Ev("organize_blank")
                 /\ UNCHANGED <<isProcessing, calls>>
            ELSE /\ isProcessing' = TRUE
                 /\ calls' = Append(calls, Closure)
                 /\ ev' = Ev("organize_start")
    /\ UNCHANGED <<showCopyToast, clipboard, timers, isKeySelected, inputText, organizedContent, template, history,
                   selectedLogId, storage, clock, alertMsg, loaded, historyIsArray,
                   nCreated, lastRemoved, removedAny>>

\* The await of invocation i resolves: generateContent returned text, and
\* Date.now() returns now.
OrganizeResolve(i, text, now) ==
    /\ i \in 1..Len(calls)
    /\ now >= clock
    /\ LET c == calls[i]
           r == OrganizeInterviewNotes([ok |-> TRUE, val |-> text])
           newLog == NewLog(RecordText(c), RecordTemplate(c), r.val, now)
           updated == Updated(newLog, SavedHistory(c))
       IN /\ organizedContent' = r.val
          /\ history' = updated
          /\ storage' = SavePersisted(updated)
          /\ selectedLogId' = newLog.id
          /\ nCreated' = nCreated + 1
          /\ ev' = [op |-> "organize_ok", arg |-> r.val, log |-> <<newLog>>, aux |-> text]
    /\ isProcessing' = FinallyProcessing
    /\ calls' = RemoveAt(calls, i)
    /\ clock' = now
    /\ lastRemoved' = Null
    /\ UNCHANGED <<showCopyToast, clipboard, timers, isKeySelected, inputText, template, alertMsg, loaded, historyIsArray,
                   removedAny>>

\* The await of invocation i rejects: generateContent threw err.
OrganizeReject(i, err) ==
    /\ i \in 1..Len(calls)
    /\ LET e == OrganizeInterviewNotes([ok |-> FALSE, val |-> err])
       IN /\ alertMsg' = CatchAlert(e)
          /\ isKeySelected' = CatchKeySelected(e)
          /\ ev' = [op |-> "organize_failed", arg |-> e.val, log |-> <<>>, aux |-> err]
    /\ isProcessing' = FinallyProcessing
    /\ calls' = RemoveAt(calls, i)
    /\ UNCHANGED <<showCopyToast, clipboard, timers, inputText, organizedContent, template, history, selectedLogId,
                   storage, clock, loaded, historyIsArray, nCreated, lastRemoved, removedAny>>

----------------------------------------------------------------------------
\* Specifications

Next ==
    \/ LoadHistory
    \/ \E hasKey \in BOOLEAN : CheckKey(hasKey)
    \/ HandleOpenKeySelector
    \/ Reload
    \/ \E t \in InputTexts : SetInputText(t)
    \/ \E tpl \in InputTemplates : SetTemplate(tpl)
    \/ HandleNewLog
    \/ \E answer \in BOOLEAN : ConfirmClear(answer)
    \/ \E k \in 1..Len(history) : SelectHistoryItem(k)
    \/ \E k \in 1..Len(history), answer \in BOOLEAN : DeleteHistoryItem(k, answer)
    \/ nCreated + Len(calls) < MaxConv /\ ClickOrganize
    \/ \E i \in 1..Len(calls), text \in ResponseTexts, now \in {clock, clock + 1} :
          OrganizeResolve(i, text, now)
    \/ \E i \in 1..Len(calls), err \in {<<"n">>, <<"k">>} : OrganizeReject(i, err)

Spec == Init /\ [][Next]_vars

\* Eviction runs: storage empty at first, one input text, a clock
\* that advances with every completion, and at most one confirmed deletion.
InitEvict == Init /\ storage.kind = "absent"

NextEvict ==
    \/ LoadHistory
    \/ CheckKey(TRUE)
    \/ SetInputText(<<"a">>)
    \/ nCreated + Len(calls) < MaxConvEvict /\ ClickOrganize
    \/ OrganizeResolve(1, <<"r">>, clock + 1)
    \/ OrganizeReject(1, <<"n">>)
    \/ Reload
    \/ \E k \in 1..Len(history) : ~removedAny /\ DeleteHistoryItem(k, TRUE)

SpecEvict == InitEvict /\ [][NextEvict]_vars

----------------------------------------------------------------------------
\* Properties

OrganizeClicks == {"organize_disabled", "organize_blank", "organize_start"}

WhitespaceOnly(t) == \A i \in 1..Len(t) : t[i] = " "

\* C1: at most one service call is outstanding in every reachable state, and a
\* click on the organize button while isProcessing makes no service call and
\* changes nothing the application holds or persists.
C1_OneInFlight ==
    /\ [](Len(calls) <= 1)
    /\ [][(isProcessing /\ ev'.op \in OrganizeClicks) => UNCHANGED appState]_vars

C1_Witness == isProcessing /\ ev.op = "organize_disabled" /\ ~WhitespaceOnly(inputText)

\* C2: whenever a conversion completes successfully, the history afterwards is
\* the new record followed by the history as it was immediately before the
\* completion, truncated to 20.
C2_AppendOnCurrent ==
    [][ev'.op = "organize_ok" =>
         /\ Len(ev'.log) = 1
         /\ history' = Slice0(ev'.log \o history, MaxHistory)]_vars

\* C3: when a conversion succeeds with returned text r (ev'.arg), the result
\* shown is r, the record at the head of the history carries the text and
\* the template the service was called with and r as organizedText, that
\* record is the selected one, and the controller is idle.
C3_SuccessPostState ==
    [][ev'.op = "organize_ok" =>
         /\ Len(calls) = 1
         /\ organizedContent' = ev'.arg
         /\ ev'.arg # <<>>
         /\ Len(history') >= 1
         /\ history'[1].originalText = calls[1].text
         /\ history'[1].organizedText = ev'.arg
         /\ history'[1].template = calls[1].template
         /\ selectedLogId' = history'[1].id
         /\ ~isProcessing'
         /\ calls' = <<>>]_vars

C3_Witness ==
    /\ ev.op = "organize_ok"
    /\ Len(history) = 2
    /\ history[1].template = HR
    /\ history[1].organizedText = <<"r">>

\* C4: when the service call rejects, the result, the selection, the input, the
\* template, the history and the storage are unchanged, no record is created,
\* the alert shows the thrown error's message (ev'.arg), and the controller is
\* idle.
C4_FailureFrame ==
    [][ev'.op = "organize_failed" =>
         /\ UNCHANGED <<organizedContent, selectedLogId, inputText, template,
                        history, storage, nCreated>>
         /\ alertMsg' = ev'.arg
         /\ alertMsg' # NoAlert
         /\ ~isProcessing'
         /\ calls' = <<>>]_vars

C4_Witness ==
    /\ ev.op = "organize_failed"
    /\ organizedContent # <<>>
    /\ selectedLogId # Null
    /\ history # <<>>

\* C5: the history never holds more than 20 records, and right after an append
\* the record just created is the first one.
C5_BoundedNewestFirst ==
    /\ Len(history) <= MaxHistory
    /\ ev.op = "organize_ok" => (history # <<>> /\ <<history[1]>> = ev.log)

C5_Witness ==
    /\ ev.op = "organize_ok"
    /\ nCreated > MaxHistory
    /\ Len(history) = MaxHistory

\* C6: the busy flag is set exactly while one service call is outstanding; an
\* accepted click starts from idle and issues exactly one call; the flag and
\* the set of calls change only when a conversion starts or settles (or the
\* page is reloaded); windows never overlap.
C6_ProcessingWindow ==
    /\ [](Len(calls) <= 1 /\ (isProcessing <=> Len(calls) = 1))
    /\ [][/\ ev'.op = "organize_start" =>
                (~isProcessing /\ calls = <<>> /\ isProcessing' /\ Len(calls') = 1)
          /\ ev'.op \in {"organize_ok", "organize_failed"} =>
                (isProcessing /\ Len(calls) = 1 /\ ~isProcessing' /\ calls' = <<>>)
          /\ (isProcessing' # isProcessing \/ calls' # calls) =>
                ev'.op \in {"organize_start", "organize_ok", "organize_failed", "reload"}
         ]_vars

C6_Witness == ev.op = "organize_failed" /\ nCreated = 1 /\ ~isProcessing /\ calls = <<>>

\* C7: a click on the organize button while the input is empty or holds only
\* whitespace changes nothing the application holds or persists and issues no
\* service call.
C7_BlankNoOp ==
    [][(WhitespaceOnly(inputText) /\ ev'.op \in OrganizeClicks) => UNCHANGED appState]_vars

C7_Witness == ev.op = "organize_disabled" /\ inputText = <<" ">> /\ ~isProcessing

\* C8: from a confirmed removal of id until the next append, neither the
\* history nor the storage holds a record with that id, also after a reload
\* and load; and filtering on an id the history does not hold returns the
\* history unchanged.
C8_RemovedStaysRemoved ==
    /\ lastRemoved # Null =>
          /\ lastRemoved \notin Ids(history)
          /\ storage.kind = "json"
          /\ lastRemoved \notin Ids(storage.val)
    /\ \A n \in 0..(clock + 1) :
          NumberToString(n) \notin Ids(history) =>
              DeleteUpdated(history, NumberToString(n)) = history

C8_Witness == ev.op = "load" /\ lastRemoved # Null /\ history # <<>>

\* C9: after an append and after a confirmed removal the storage holds the
\* JSON of exactly the in-memory history, with the appended record first; a
\* reload leaves the storage alone; and load of stored JSON of a sequence
\* yields that sequence.
C9_PersistedInStep ==
    [][/\ ev'.op \in {"organize_ok", "delete_confirmed"} =>
             (storage'.kind = "json" /\ storage'.val = history')
       /\ ev'.op = "organize_ok" =>
             (storage'.val # <<>> /\ <<storage'.val[1]>> = ev'.log)
       /\ ev'.op = "reload" => storage' = storage
       /\ (ev'.op = "load" /\ storage.kind = "json") =>
             (history' = storage.val /\ storage' = storage)
      ]_vars

C9_Witness ==
    /\ ev.op = "load"
    /\ lastRemoved = Null
    /\ Len(history) = 2
    /\ storage.kind = "json"
    /\ storage.val = history

\* C10: with no deletion, after n successful conversions the loaded history
\* holds the min(n, 20) latest conversions, newest first; conversion k is the
\* one completed at clock value InitClock + k.
C10_OldestEvicted ==
    (loaded /\ ~removedAny) =>
        /\ Len(history) = Min(nCreated, MaxHistory)
        /\ \A i \in 1..Len(history) :
              history[i].id = NumberToString(InitClock + nCreated - i + 1)

C10_Witness ==
    /\ loaded
    /\ ~removedAny
    /\ nCreated = MaxHistory + 1
    /\ Len(history) = MaxHistory
    /\ history[1].id = NumberToString(InitClock + MaxHistory + 1)
    /\ history[MaxHistory].id = NumberToString(InitClock + 2)

Edits == {"setInputText", "setTemplate", "select", "newLog", "clear_confirmed",
          "clear_declined", "clear_direct"}

\* C11: the record a conversion creates carries the input text and the
\* template of the moment the conversion was started, which are the arguments
\* of the service call; edits, selections and resets made while the call is
\* outstanding change neither.
C11_RecordFromStart ==
    [][/\ ev'.op = "organize_start" =>
             /\ Len(calls') = 1
             /\ calls'[1].text = inputText
             /\ calls'[1].template = template
       /\ ev'.op \in Edits => calls' = calls
       /\ ev'.op = "organize_ok" =>
             /\ Len(calls) = 1
             /\ ev'.log[1].originalText = calls[1].text
             /\ ev'.log[1].template = calls[1].template
             /\ ev'.log[1] = history'[1]
      ]_vars

C11_Witness ==
    /\ ev.op = "organize_ok"
    /\ inputText # history[1].originalText
    /\ template # history[1].template

\* The error generateContent throws when the API key is invalid or missing
CredentialError == <<"k">>

\* C12: when the service call fails because the credential is invalid or
\* missing, the controller is idle again, the result shown is unchanged, the
\* key-selected flag is cleared and the credential message is shown.
C12_CredentialSignal ==
    [][(ev'.op = "organize_failed" /\ ev'.aux = CredentialError) =>
          /\ ~isProcessing'
          /\ organizedContent' = organizedContent
          /\ isKeySelected' = "false"
          /\ alertMsg' = ApiKeyAlert]_vars

----------------------------------------------------------------------------
\* The external service settles an outstanding call: the await of
\* handleOrganize resolves or rejects.
Settle ==
    \E i \in 1..Len(calls) :
        \/ \E text \in ResponseTexts, now \in {clock, clock + 1} : OrganizeResolve(i, text, now)
        \/ \E err \in {<<"n">>, CredentialError} : OrganizeReject(i, err)

\* Conversion runs: storage empty at first; the user types, clicks organize and
\* reloads the page; the service eventually settles each call.
InitLive == Init /\ storage.kind = "absent"

NextLive ==
    \/ LoadHistory
    \/ CheckKey(TRUE)
    \/ Reload
    \/ \E t \in InputTexts : SetInputText(t)
    \/ nCreated + Len(calls) < MaxConv /\ ClickOrganize
    \/ Settle

SpecLive == InitLive /\ [][NextLive]_vars /\ WF_vars(Settle)

\* C13: if the service eventually resolves or rejects every call, every
\* processing state is eventually followed by an idle one; a resolved call, a
\* rejected call and a call rejected for the credential all leave the
\* controller idle; a failure leaves no call outstanding, and a call is only
\* ever issued by a click on the organize button.
C13_EventuallyIdle ==
    /\ isProcessing ~> ~isProcessing
    /\ [][/\ ev'.op \in {"organize_ok", "organize_failed"} => ~isProcessing'
          /\ ev'.op = "organize_failed" => calls' = <<>>
          /\ Len(calls') > Len(calls) => ev'.op = "organize_start"
         ]_vars

C13_Witness ==
    /\ ev.op = "organize_failed"
    /\ ev.aux = CredentialError
    /\ ~isProcessing
    /\ calls = <<>>
    /\ alertMsg = GenericServiceMessage

\* The events of the two controls that start a new entry: the sidebar plus
\* button (newLog) and the header new-log button (clear_*).
NewEntryOps == {"newLog", "clear_confirmed", "clear_declined", "clear_direct"}

\* C14: while the input is non-blank or a result is displayed, a new-entry
\* control changes input, result, selection or template only when the user
\* has confirmed the prompt.
C14_ClearOnlyConfirmed ==
    [][(/\ ev'.op \in NewEntryOps
        /\ ~WhitespaceOnly(inputText) \/ organizedContent # <<>>
        /\ <<inputText, organizedContent, selectedLogId, template>>' #
               <<inputText, organizedContent, selectedLogId, template>>)
          => ev'.op = "clear_confirmed"]_vars

\* C15: a confirmed removal of the record that is selected leaves the input
\* and the result empty, no record selected and the template at its default,
\* and neither the history nor the storage holds the removed id afterwards.
C15_DeleteSelectedResets ==
    [][(ev'.op = "delete_confirmed" /\ selectedLogId = ev'.arg) =>
          /\ ev'.arg \in Ids(history)
          /\ inputText' = <<>>
          /\ organizedContent' = <<>>
          /\ selectedLogId' = Null
          /\ template' = PROFESSIONAL
          /\ ev'.arg \notin Ids(history')
          /\ storage'.kind = "json"
          /\ ev'.arg \notin Ids(storage'.val)]_vars

C15_Witness ==
    /\ ev.op = "delete_confirmed"
    /\ ev.aux = ev.arg
    /\ history # <<>>
    /\ selectedLogId = Null
    /\ template = PROFESSIONAL

\* C16: when the user declines the prompt of a removal or of a new entry,
\* nothing the application holds or persists changes: history, storage,
\* input, result, template, selection and busy flag stay as they were.
C16_DeclineNoOp ==
    [][ev'.op \in {"delete_declined", "clear_declined"} => UNCHANGED appState]_vars

C16_Witness ==
    /\ ev.op = "clear_declined"
    /\ organizedContent # <<>>
    /\ selectedLogId # Null
    /\ template = HR
    /\ isProcessing

\* C17: whatever the storage holds (nothing, text that does not parse, JSON
\* that is not a sequence of records, a stored sequence), after load the
\* history is a sequence, namely the stored sequence when there is one and the
\* empty sequence otherwise, and the controller is idle.
C17_LoadTolerates ==
    [][ev'.op = "load" =>
          /\ historyIsArray'
          /\ history' = (IF storage.kind = "json" THEN storage.val ELSE <<>>)
          /\ ~isProcessing']_vars

\* C18: while the main content is shown and no conversion is processing,
\* every record of the history can be selected; selecting a record sets the
\* input to its originalText, the result to its organizedText, the template
\* to its template and the selected id to its id, and leaves the history, the
\* storage, the busy flag and the outstanding calls unchanged.
C18_SelectLoads ==
    /\ []((MainRendered /\ ~isProcessing) =>
             \A k \in 1..Len(history) : ENABLED SelectHistoryItem(k))
    /\ [][ev'.op = "select" =>
             /\ \E k \in 1..Len(history) : ev'.log[1] = history[k]
             /\ inputText' = ev'.log[1].originalText
             /\ organizedContent' = ev'.log[1].organizedText
             /\ template' = ev'.log[1].template
             /\ selectedLogId' = ev'.log[1].id
             /\ UNCHANGED <<history, storage, isProcessing, calls>>]_vars

C18_Witness ==
    /\ ev.op = "select"
    /\ ~isProcessing
    /\ Len(history) = 2
    /\ selectedLogId = history[2].id
    /\ template = HR
    /\ history[1].template = PROFESSIONAL

\* The records the application holds or has persisted
KnownRecords ==
    {history[i] : i \in 1..Len(history)} \cup
        (IF storage.kind = "json" THEN {storage.val[i] : i \in 1..Len(storage.val)} ELSE {})

\* C19: after every step, each record of the history other than the one the
\* step created is field for field a record that was held (or persisted)
\* before the step, and the history changes only by a prepend of the new
\* record with truncation, by a removal of whole records, or by the load of
\* the persisted sequence.
C19_RecordsImmutable ==
    [][/\ \A i \in 1..Len(history') :
              \/ ev'.op = "organize_ok" /\ i = 1 /\ history'[i] = ev'.log[1]
              \/ history'[i] \in KnownRecords
       /\ history' # history =>
              \/ /\ ev'.op = "organize_ok"
                 /\ history' = Slice0(<<ev'.log[1]>> \o history, MaxHistory)
              \/ /\ ev'.op \in {"delete_confirmed", "reload"}
                 /\ \A i \in 1..Len(history') : history'[i] \in KnownRecords
                 /\ Len(history') < Len(history)
              \/ /\ ev'.op = "load"
                 /\ storage.kind = "json"
                 /\ history' = storage.val
      ]_vars

\* C20: in every reachable state the records of the history have pairwise
\* distinct ids (each id is the clock value read when its conversion
\* completed, and the clock may stand still between two completions), so that
\* a confirmed removal takes at most one record out of the history.
C20_UniqueIds ==
    /\ [](\A i, j \in 1..Len(history) : i # j => history[i].id # history[j].id)
    /\ [][ev'.op = "delete_confirmed" => Len(history') >= Len(history) - 1]_vars

----------------------------------------------------------------------------
\* Title runs: storage empty at first, inputs whose length lies around
\* TitleLen with spaces at their ends and across the cut, and one conversion.
Letters(n) == [i \in 1..n |-> "a"]

TitleTexts ==
    {pre \o Letters(n) \o post :
        pre \in {<<>>, <<" ">>},
        post \in {<<>>, <<" ">>, <<" ", "b">>},
        n \in (TitleLen - 3)..(TitleLen + TitleSlack)}

InitTitle == Init /\ storage.kind = "absent"

NextTitle ==
    \/ LoadHistory
    \/ CheckKey(TRUE)
    \/ \E t \in TitleTexts : SetInputText(t)
    \/ nCreated = 0 /\ calls = <<>> /\ ClickOrganize
    \/ OrganizeResolve(1, <<"r">>, clock + 1)

SpecTitle == InitTitle /\ [][NextTitle]_vars

\* C21: the title of a created record is, for an input of at most 25
\* characters, the trimmed input with no ellipsis, and for a longer input the
\* trimmed first 25 characters followed by '...'.
C21_TitleDerivation ==
    [][ev'.op = "organize_ok" =>
          LET t == ev'.log[1].originalText
              title == ev'.log[1].title
          IN /\ t = calls[1].text
             /\ Len(t) <= 25 => title = Trim(t)
             /\ Len(t) > 25 => title = Trim(SubSeq(t, 1, 25)) \o <<".", ".", ".">>
      ]_vars

C21_Witness ==
    /\ ev.op = "organize_ok"
    /\ Len(history[1].originalText) > 25
    /\ Head(history[1].originalText) = " "
    /\ Len(history[1].title) = 24 + 3

----------------------------------------------------------------------------
\* Copy to clipboard

\* Mutant: the input is written instead of the result
CopyTextInput == inputText

\* navigator.clipboard.writeText(organizedContent)
CopyText == organizedContent

\* copyToClipboard, the handler of the copy button (the button itself is
\* rendered while organizedContent is non-empty and nothing is processing)
CopyToClipboard ==
    /\ MainRendered
    /\ IF organizedContent = <<>>
       THEN /\ ev' = Ev("copy_noop")
            /\ UNCHANGED <<clipboard, showCopyToast, timers>>
       ELSE /\ clipboard' = CopyText
            /\ showCopyToast' = TRUE
            /\ timers' = timers + 1
            /\ ev' = [op |-> "copy", arg |-> CopyText, log |-> <<>>, aux |-> <<>>]
    /\ UNCHANGED <<isKeySelected, inputText, organizedContent, template, isProcessing,
                   history, selectedLogId, storage, calls, clock, alertMsg, loaded,
                   historyIsArray, nCreated, lastRemoved, removedAny>>

\* A callback of setTimeout(() => setShowCopyToast(false), 2000) runs
ToastTimeout ==
    /\ timers > 0
    /\ showCopyToast' = FALSE
    /\ timers' = timers - 1
    /\ ev' = Ev("toast_timeout")
    /\ UNCHANGED <<isKeySelected, inputText, organizedContent, template, isProcessing,
                   history, selectedLogId, storage, calls, clock, alertMsg, loaded,
                   historyIsArray, clipboard, nCreated, lastRemoved, removedAny>>

\* Copy runs: storage empty at first; conversions, new entries, copies and
\* reloads; every pending timer eventually fires.
InitCopy == Init /\ storage.kind = "absent"

NextCopy ==
    \/ LoadHistory
    \/ CheckKey(TRUE)
    \/ Reload
    \/ SetInputText(<<"a">>)
    \/ HandleNewLog
    \/ nCreated + Len(calls) < MaxConv /\ ClickOrganize
    \/ \E text \in ResponseTexts : OrganizeResolve(1, text, clock + 1)
    \/ timers < MaxTimers /\ CopyToClipboard
    \/ ToastTimeout

SpecCopy == InitCopy /\ [][NextCopy]_vars /\ WF_vars(ToastTimeout)

CopyOps == {"copy", "copy_noop"}

\* C22: a copy with an empty result changes nothing (no clipboard write, the
\* confirmation flag as it was); a copy with a non-empty result writes exactly
\* the result to the clipboard and raises the flag; while the flag is raised a
\* timer is pending, only a timer (or a reload) lowers it, and every raised
\* flag is eventually lowered with no user action.
C22_CopyAndExpiry ==
    /\ showCopyToast ~> ~showCopyToast
    /\ [](showCopyToast => timers > 0)
    /\ [][/\ (ev'.op \in CopyOps /\ organizedContent = <<>>) =>
                (ev'.op = "copy_noop" /\ UNCHANGED appState)
          /\ (ev'.op \in CopyOps /\ organizedContent # <<>>) =>
                /\ ev'.op = "copy"
                /\ clipboard' = organizedContent
                /\ showCopyToast'
                /\ organizedContent' = organizedContent
          /\ clipboard' # clipboard => ev'.op = "copy"
          /\ (showCopyToast /\ ~showCopyToast') => ev'.op \in {"toast_timeout", "reload"}
         ]_vars

C22_Witness ==
    /\ ev.op = "toast_timeout"
    /\ ~showCopyToast
    /\ timers = 0
    /\ clipboard # <<>>
    /\ clipboard = organizedContent

\* C23: when a removal is confirmed while a conversion is processing and the
\* conversion then completes, the removed record is in neither the history
\* nor the storage (the record just created, first in both, is set aside).
C23_DeleteDurableInFlight ==
    [][(ev.op = "delete_confirmed" /\ isProcessing /\ ev'.op = "organize_ok") =>
          /\ \A i \in 2..Len(history') : history'[i].id # ev.arg
          /\ storage'.kind = "json"
          /\ \A i \in 2..Len(storage'.val) : storage'.val[i].id # ev.arg]_vars

\* C24: in every reachable state, when an id is selected the history holds a
\* record with that id whose organizedText is the displayed result, whatever
\* the interleaving of selections, removals, new entries and edits with a
\* conversion in flight.
C24_SelectionValid ==
    selectedLogId # Null =>
        \E i \in 1..Len(history) :
            /\ history[i].id = selectedLogId
            /\ history[i].organizedText = organizedContent

C24_Witness ==
    /\ ev.op = "organize_ok"
    /\ removedAny
    /\ Len(history) = 2
    /\ selectedLogId = history[1].id
    /\ inputText # history[1].originalText

\* The records of h whose id is not id, in the order of h
Without(h, id) == SelectSeq(h, LAMBDA r : r.id # id)

\* C25: a confirmed removal of an id that is not the selected one leaves the
\* input, the result, the template, the selection and the busy flag as they
\* were, and the history afterwards is the history before without the records
\* of that id, the others in their previous order.
C25_DeleteOtherFrame ==
    [][(ev'.op = "delete_confirmed" /\ selectedLogId # ev'.arg) =>
          /\ UNCHANGED <<inputText, organizedContent, template, selectedLogId, isProcessing>>
          /\ ev'.arg \in Ids(history)
          /\ history' = Without(history, ev'.arg)]_vars

C25_Witness ==
    /\ ev.op = "delete_confirmed"
    /\ ev.aux # ev.arg
    /\ selectedLogId # Null
    /\ Len(history) = 1
    /\ selectedLogId = history[1].id
    /\ organizedContent = history[1].organizedText

\* C26: every record of the history has a non-blank originalText and a
\* non-empty organizedText; a resolved call yields a non-empty text, the fixed
\* fallback text when the model's response was empty, and that text is the
\* result stored in the new record; a rejected call always carries the one
\* fixed generic message, whatever generateContent threw.
C26_NonBlankRecords ==
    /\ [](\A i \in 1..Len(history) :
             /\ ~WhitespaceOnly(history[i].originalText)
             /\ history[i].organizedText # <<>>)
    /\ [][/\ ev'.op = "organize_ok" =>
                /\ ev'.arg # <<>>
                /\ ev'.aux # <<>> => ev'.arg = ev'.aux
                /\ ev'.aux = <<>> => ev'.arg = <<"F">>
                /\ history'[1].organizedText = ev'.arg
                /\ organizedContent' = ev'.arg
          /\ ev'.op = "organize_failed" =>
                /\ ev'.arg = <<"S">>
                /\ alertMsg' = <<"S">>
         ]_vars

C26_Witness ==
    /\ ev.op = "organize_ok"
    /\ ev.aux = <<>>
    /\ history[1].organizedText = EmptyResponseText
    /\ organizedContent = EmptyResponseText
    /\ nCreated = 2

====
